---- MODULE Spec2Model ----
(***************************************************************************)
(* A model of scorepi: the basic score functions (score_functions.py), the *)
(* Observations / Predictions tables (base_classes.py) and the dataframe   *)
(* scoring pipeline (score_utils.py).                                      *)
(*                                                                         *)
(* Numbers.  Python floats are modelled as exact rationals [n, d] in       *)
(* lowest terms with d > 0; NaN is the record [n |-> 0, d |-> 0].          *)
(* Floating-point rounding is not modelled.  Quantiles are kept in units   *)
(* of 1/200, so that 0.5 -+ interval_range/200 is exact.                   *)
(*                                                                         *)
(* Calls.  Every function of the package is pure; an action applies one    *)
(* function to the inputs held in the state and stores what the call       *)
(* returned or raised in `out`.                                            *)
(***************************************************************************)
EXTENDS Integers, Sequences, FiniteSets, TLC

VARIABLES
    observation,      \* score_functions: the observation vector
    lower,            \* score_functions: the lower-quantile vector
    upper,            \* score_functions: the upper-quantile vector
    unit,             \* the vectors hold the numbers v[i] / unit
    observations,     \* score_utils: the Observations table (sorted rows)
    predictions,      \* score_utils: the Predictions table (sorted rows)
    predictions_list, \* ensemble_models: the list of Predictions tables
    out               \* what the last call returned or raised

vars == <<observation, lower, upper, unit, observations, predictions,
          predictions_list, out>>

(***************************************************************************)
(* Bounds of the model.                                                    *)
(***************************************************************************)
MaxLen == 2
MaxVal == 2

(***************************************************************************)
(* Exact rational arithmetic standing for Python / numpy float arithmetic. *)
(***************************************************************************)
Abs(x) == IF x < 0 THEN -x ELSE x

RECURSIVE GCD(_, _)
GCD(a, b) == IF b = 0 THEN a ELSE GCD(b, a % b)

Rat(n, d) ==
    LET s == IF d < 0 THEN -1 ELSE 1
        g == GCD(Abs(n), Abs(d))
    IN  [n |-> (s * n) \div g, d |-> (s * d) \div g]

RInt(i) == [n |-> i, d |-> 1]
NaN == [n |-> 0, d |-> 0]
IsNaN(a) == a.d = 0 /\ a.n = 0
\* +inf and -inf are [n |-> 1, d |-> 0] and [n |-> -1, d |-> 0]
Inf(sign) == [n |-> IF sign < 0 THEN -1 ELSE 1, d |-> 0]
IsFinite(a) == a.d # 0

\* the operations on finite numbers; nan propagates; inf appears only as the
\* result of FloatDiv below and is only ever added
RAdd(a, b) ==
    IF IsNaN(a) \/ IsNaN(b) THEN NaN
    ELSE IF ~IsFinite(a) THEN (IF IsFinite(b) \/ a = b THEN a ELSE NaN)
    ELSE IF ~IsFinite(b) THEN b
    ELSE Rat(a.n * b.d + b.n * a.d, a.d * b.d)
RSub(a, b) == IF ~IsFinite(a) \/ ~IsFinite(b) THEN NaN ELSE Rat(a.n * b.d - b.n * a.d, a.d * b.d)
RMul(a, b) == IF ~IsFinite(a) \/ ~IsFinite(b) THEN NaN ELSE Rat(a.n * b.n, a.d * b.d)
\* a / b for b # 0 (the callers handle a zero divisor the way the code does)
RDiv(a, b) == IF ~IsFinite(a) \/ ~IsFinite(b) THEN NaN ELSE Rat(a.n * b.d, a.d * b.n)
RAbs(a) == [n |-> Abs(a.n), d |-> a.d]
RLt(a, b) == IsFinite(a) /\ IsFinite(b) /\ a.n * b.d < b.n * a.d
RLe(a, b) == IsFinite(a) /\ IsFinite(b) /\ a.n * b.d <= b.n * a.d
RZero == RInt(0)
ROne == RInt(1)
RHalf == Rat(1, 2)
\* a Python bool used as a number
RBool(b) == IF b THEN ROne ELSE RZero

RECURSIVE RSum(_)
RSum(s) == IF s = <<>> THEN RZero ELSE RAdd(Head(s), RSum(Tail(s)))

(***************************************************************************)
(* What a call does: it returns a value or raises an exception.            *)
(***************************************************************************)
Return(v) == [status |-> "ok", value |-> v]
Raise(e) == [status |-> e, value |-> <<>>]
NoCall ==
    [fn |-> "none", interval_ranges |-> <<>>, mismatched_allowed |-> FALSE,
     res |-> [status |-> "none", value |-> <<>>]]

(***************************************************************************)
(* score_functions.interval_score                                          *)
(***************************************************************************)
\* np.array(...) of a list of numbers
AsArray(v) == [i \in 1..Len(v) |-> RInt(v[i])]

ScoreAlpha(interval_range) == RSub(ROne, Rat(interval_range, 100))

\* (a variant that forgets the lower end of the range)
RangeRejectedAboveOnly(interval_range) == interval_range > 100
RangeRejected(interval_range) == interval_range > 100 \/ interval_range < 0

ShapeMismatch(obs, l, u) == Len(l) # Len(u) \/ Len(l) # Len(obs)

\* (2/alpha) * (l-obs) * (obs < l), elementwise
\* (a variant without the factor 2/alpha)
UnderpredictionUnscaled(f, obs, l, u) ==
    [i \in 1..Len(obs) |-> RMul(RSub(l[i], obs[i]), RBool(RLt(obs[i], l[i])))]
Underprediction(f, obs, l, u) ==
    [i \in 1..Len(obs) |-> RMul(RMul(f, RSub(l[i], obs[i])), RBool(RLt(obs[i], l[i])))]

\* (2/alpha) * (obs-u) * (obs > u), elementwise
Overprediction(f, obs, l, u) ==
    [i \in 1..Len(obs) |-> RMul(RMul(f, RSub(obs[i], u[i])), RBool(RLt(u[i], obs[i])))]

Dispersion(obs, l, u) == [i \in 1..Len(obs) |-> RSub(u[i], l[i])]

\* obs, l, u are arrays of equal length; interval_range is a Python int
interval_score(obsv, lowerv, upperv, interval_range) ==
    IF ShapeMismatch(obsv, lowerv, upperv) THEN Raise("ValueError")
    ELSE IF RangeRejected(interval_range) THEN Raise("ValueError")
    ELSE LET alpha == ScoreAlpha(interval_range)
         IN  IF alpha.n = 0
             THEN Raise("ZeroDivisionError")     \* 2/alpha with alpha = 0.0
             ELSE LET f == RDiv(RInt(2), alpha)
                      dispersion == Dispersion(obsv, lowerv, upperv)
                      underprediction == Underprediction(f, obsv, lowerv, upperv)
                      overprediction == Overprediction(f, obsv, lowerv, upperv)
                      score == [i \in 1..Len(obsv) |->
                                   RAdd(RAdd(dispersion[i], underprediction[i]),
                                        overprediction[i])]
                  IN  Return([interval_range |-> interval_range,
                              interval_score |-> score,
                              dispersion |-> dispersion,
                              underprediction |-> underprediction,
                              overprediction |-> overprediction])

(***************************************************************************)
(* score_functions.coverage                                                *)
(***************************************************************************)
\* (a variant with both bounds exclusive)
WithinStrict(obs, l, u) ==
    [i \in 1..Len(obs) |-> RLt(l[i], obs[i]) /\ RLt(obs[i], u[i])]
\* np.logical_and(obs >= l, obs <= u), elementwise
Within(obs, l, u) ==
    [i \in 1..Len(obs) |-> RLe(l[i], obs[i]) /\ RLe(obs[i], u[i])]

\* np.mean of a boolean array: nan for an empty one
MeanBool(b) ==
    IF Len(b) = 0 THEN NaN
    ELSE Rat(Cardinality({i \in 1..Len(b) : b[i]}), Len(b))

coverage(obsv, lowerv, upperv) ==
    IF ShapeMismatch(obsv, lowerv, upperv) THEN Raise("ValueError")
    ELSE Return(MeanBool(Within(obsv, lowerv, upperv)))

(***************************************************************************)
(* base_classes: Observations and Predictions.  A table is a record        *)
(* [rows, other_ind_cols]; a row is a record of its columns (date,         *)
(* location, value and, for predictions, type and quantile).  The time     *)
(* column is "date".  Dates and locations are integer codes.               *)
(***************************************************************************)
t_col == "date"
ind_cols(tbl) == <<t_col>> \o tbl.other_ind_cols

\* the values of the columns cols in a row
KeyOf(row, cols) == [i \in 1..Len(cols) |-> row[cols[i]]]

\* lexicographic order of two tuples of equal length
RECURSIVE TupleLess(_, _)
TupleLess(a, b) ==
    IF a = <<>> THEN FALSE
    ELSE IF Head(a) # Head(b) THEN Head(a) < Head(b)
    ELSE TupleLess(Tail(a), Tail(b))

\* sort_values(by=cols) with several columns sorts with a stable
\* lexicographic sort: rows with equal keys keep their order
RECURSIVE InsertRow(_, _, _)
InsertRow(sorted, row, cols) ==
    IF sorted = <<>> THEN <<row>>
    ELSE IF TupleLess(KeyOf(row, cols), KeyOf(Head(sorted), cols))
         THEN <<row>> \o sorted
         ELSE <<Head(sorted)>> \o InsertRow(Tail(sorted), row, cols)

RECURSIVE LexSort(_, _)
LexSort(rows, cols) ==
    IF rows = <<>> THEN <<>>
    ELSE InsertRow(LexSort(SubSeq(rows, 1, Len(rows) - 1), cols), rows[Len(rows)], cols)

\* sort_values(by=cols) with one column sorts with numpy's argsort of kind
\* "quicksort", which is not stable: on the positions pl..pr of the index
\* array tosort it partitions around the median of three while the slice has
\* more than SmallQuicksort + 1 elements and sorts a smaller slice by
\* insertion.  v is the column, tosort the positions of its elements.  (The
\* switch to heapsort after 2 * floor(log2(n)) nested partitions is never
\* taken on the tables of this model.)
SmallQuicksort == 16

Swap(tosort, i, j) == [tosort EXCEPT ![i] = tosort[j], ![j] = tosort[i]]

\* the insertion sort of the positions pl..pr: the element at pj moves down
\* past the elements greater than it
RECURSIVE InsertDown(_, _, _, _)
InsertDown(v, tosort, pl, pj) ==
    IF pj > pl /\ v[tosort[pj]] < v[tosort[pj - 1]]
    THEN InsertDown(v, Swap(tosort, pj, pj - 1), pl, pj - 1)
    ELSE tosort

RECURSIVE InsertionSort(_, _, _, _, _)
InsertionSort(v, tosort, pl, pi, pr) ==
    IF pi > pr THEN tosort
    ELSE InsertionSort(v, InsertDown(v, tosort, pl, pi), pl, pi + 1, pr)

RECURSIVE ScanUp(_, _, _, _)
ScanUp(v, tosort, vp, pi) ==
    IF v[tosort[pi]] < vp THEN ScanUp(v, tosort, vp, pi + 1) ELSE pi

RECURSIVE ScanDown(_, _, _, _)
ScanDown(v, tosort, vp, pj) ==
    IF vp < v[tosort[pj]] THEN ScanDown(v, tosort, vp, pj - 1) ELSE pj

\* the partition loop: [tosort, pi] when the two scans have met
RECURSIVE Partition(_, _, _, _, _)
Partition(v, tosort, vp, pi, pj) ==
    LET i == ScanUp(v, tosort, vp, pi + 1)
        j == ScanDown(v, tosort, vp, pj - 1)
    IN  IF i >= j THEN [tosort |-> tosort, pi |-> i]
        ELSE Partition(v, Swap(tosort, i, j), vp, i, j)

\* the elements at i and j in order
Order2(v, tosort, i, j) ==
    IF v[tosort[j]] < v[tosort[i]] THEN Swap(tosort, j, i) ELSE tosort

\* the median of the elements at pl, pm and pr is brought to pm
MedianOfThree(v, tosort, pl, pm, pr) ==
    Order2(v, Order2(v, Order2(v, tosort, pl, pm), pm, pr), pl, pm)

\* the pivot v[tosort[pm]] is put aside at pr - 1 and the slice partitioned
PartitionSlice(v, tosort, pl, pm, pr) ==
    Partition(v, Swap(tosort, pm, pr - 1), v[tosort[pm]], pl, pr - 1)

RECURSIVE AQuickSort(_, _, _, _)
RECURSIVE SortParts(_, _, _, _)
\* the pivot is put at its place part.pi and the two parts are sorted
SortParts(v, part, pl, pr) ==
    AQuickSort(v, AQuickSort(v, Swap(part.tosort, part.pi, pr - 1), pl, part.pi - 1),
               part.pi + 1, pr)

AQuickSort(v, tosort, pl, pr) ==
    IF pr - pl > SmallQuicksort
    THEN SortParts(v, PartitionSlice(v, MedianOfThree(v, tosort, pl,
                                                      pl + ((pr - pl) \div 2), pr),
                                     pl, pl + ((pr - pl) \div 2), pr),
                   pl, pr)
    ELSE InsertionSort(v, tosort, pl, pl + 1, pr)

RECURSIVE Positions(_)
Positions(n) == IF n = 0 THEN <<>> ELSE Append(Positions(n - 1), n)

ArgSort(v) == AQuickSort(v, Positions(Len(v)), 1, Len(v))

\* the rows at the positions of the indexer
RECURSIVE Take(_, _)
Take(rows, indexer) ==
    IF indexer = <<>> THEN <<>>
    ELSE <<rows[Head(indexer)]>> \o Take(rows, Tail(indexer))

RECURSIVE ColumnOf(_, _)
ColumnOf(rows, col) ==
    IF rows = <<>> THEN <<>>
    ELSE <<Head(rows)[col]>> \o ColumnOf(Tail(rows), col)

\* sort_values(by=cols) followed by reset_index
SortRows(rows, cols) ==
    IF Len(cols) = 1
    THEN Take(rows, ArgSort(ColumnOf(rows, cols[1])))
    ELSE LexSort(rows, cols)

\* Observations.__init__ / Predictions.__init__ on data that has every column
NewTable(data, other_ind_cols) ==
    [rows |-> SortRows(data, <<t_col>> \o other_ind_cols),
     other_ind_cols |-> other_ind_cols]

\* filter(bool_df): the rows where the mask holds, in a new table
RECURSIVE SelectRows(_, _)
SelectRows(rows, bool_df) ==
    IF Len(rows) = 0 THEN <<>>
    ELSE (IF Head(bool_df) THEN <<Head(rows)>> ELSE <<>>)
             \o SelectRows(Tail(rows), Tail(bool_df))

filter(tbl, bool_df) ==
    NewTable(SelectRows(tbl.rows, bool_df), tbl.other_ind_cols)

Column(tbl, col) == [i \in 1..Len(tbl.rows) |-> tbl.rows[i][col]]
ColumnValues(tbl, col) == {tbl.rows[i][col] : i \in 1..Len(tbl.rows)}

get_value(tbl) == AsArray(Column(tbl, "value"))
get_t(tbl) == Column(tbl, t_col)
get_x(tbl) == [i \in 1..Len(tbl.rows) |-> KeyOf(tbl.rows[i], ind_cols(tbl))]

\* a quantile is kept in units of 1/200; a point row's quantile is NaN
QuantileNaN == 0 - 1

\* np.isclose(a, b) with numpy's rtol = 1e-5 and atol = 1e-8, for a and b in
\* units of 1/200: |a - b| <= atol + rtol * |b|
IsClose(a, b) ==
    /\ a # QuantileNaN
    /\ Abs(a - b) <= (200 + 1000 * Abs(b)) \div 100000000

IsQuantileRow(row, q) == IsClose(row.quantile, q)

get_quantile(tbl, q) ==
    get_value(filter(tbl, [i \in 1..Len(tbl.rows) |->
                              IsQuantileRow(tbl.rows[i], q)]))

PointOrMedian(tbl, point) ==
    IF Len(point) = 0 THEN get_quantile(tbl, 100) ELSE point

get_point(tbl) ==
    PointOrMedian(tbl, AsArray(Column(
        [rows |-> SelectRows(tbl.rows, [i \in 1..Len(tbl.rows) |->
                                           tbl.rows[i].type = "point"]),
         other_ind_cols |-> tbl.other_ind_cols], "value")))

(***************************************************************************)
(* numpy: unique rows, array equality, broadcasting of 1-d arrays.         *)
(***************************************************************************)
\* np.unique(x, axis=0): the distinct rows, sorted
RECURSIVE SortedTuples(_)
SortedTuples(S) ==
    IF S = {} THEN <<>>
    ELSE LET m == CHOOSE a \in S : \A b \in S : ~TupleLess(b, a)
         IN  <<m>> \o SortedTuples(S \ {m})

np_unique(x) == SortedTuples({x[i] : i \in 1..Len(x)})
np_array_equal(a, b) == a = b

\* the shape two 1-d arrays broadcast to, or -1 when they do not
BroadcastLen(n, m) ==
    IF n = m THEN n ELSE IF n = 1 THEN m ELSE IF m = 1 THEN n ELSE 0 - 1

At(a, i) == IF Len(a) = 1 THEN a[1] ELSE a[i]

(***************************************************************************)
(* score_utils.all_timestamped_scores_from_df                              *)
(***************************************************************************)
\* (a variant that compares the time column alone)
KeysMismatchDatesOnly(obsT, predT) ==
    ColumnValues(obsT, t_col) # ColumnValues(predT, t_col)
\* the independent-variable columns of the two tables do not match
KeysMismatch(obsT, predT) ==
    ~np_array_equal(np_unique(get_x(obsT)), np_unique(get_x(predT)))

\* (a variant without the check of the median)
MedianCheckSkipped(predT) == FALSE
\* len(predictions.get_quantile(0.5)) == 0
MedianMissing(predT) == Len(get_quantile(predT, 100)) = 0

\* np.heaviside(x, 0)
Heaviside(x) == IF RLt(RZero, x) THEN ROne ELSE RZero

\* (a variant that keeps the sign of the difference)
AbsDiffSigned(a, b) ==
    [i \in 1..BroadcastLen(Len(a), Len(b)) |-> RSub(At(a, i), At(b, i))]
\* np.abs(a - b) of two arrays that broadcast
AbsDiff(a, b) ==
    [i \in 1..BroadcastLen(Len(a), Len(b)) |-> RAbs(RSub(At(a, i), At(b, i)))]

\* (a variant with the step taken on b - a)
StepTimesReversed(a, b, c) ==
    [i \in 1..Len(c) |-> RMul(Heaviside(RSub(At(b, i), At(a, i))), c[i])]
\* np.heaviside(a - b, 0) * c
StepTimes(a, b, c) ==
    [i \in 1..Len(c) |-> RMul(Heaviside(RSub(At(a, i), At(b, i))), c[i])]

\* np.any(lower >= upper)
NotMonotonic(lowq, uppq) ==
    \E i \in 1..BroadcastLen(Len(lowq), Len(uppq)) : RLe(At(uppq, i), At(lowq, i))

\* q_low, q_upp = 0.5 - interval_range/200, 0.5 + interval_range/200
QLow(interval_range) == 100 - interval_range
QUpp(interval_range) == 100 + interval_range

\* alpha = 1 - (q_upp - q_low)
WisAlpha(interval_range) ==
    RSub(ROne, Rat(QUpp(interval_range) - QLow(interval_range), 200))

\* (a variant that leaves the weight of the median term out)
WisNormNoMedianTerm(interval_ranges) == RInt(Len(interval_ranges))
\* wis /= (len(interval_ranges) + 1/2)
WisNorm(interval_ranges) == RAdd(RInt(Len(interval_ranges)), RHalf)

\* pd.DataFrame(score) with the time and the other independent columns of
\* the observations: one row per observation row
ScoreFrame(obsT, score) ==
    [i \in 1..Len(obsT.rows) |->
        [key |-> KeyOf(obsT.rows[i], ind_cols(obsT)),
         scores |-> (score.interval_range :>
                        [interval_score |-> score.interval_score[i],
                         dispersion |-> score.dispersion[i],
                         underprediction |-> score.underprediction[i],
                         overprediction |-> score.overprediction[i]])]]

\* pd.merge(x, y, on=ind_cols): the inner join, in the order of x
RECURSIVE Merge(_, _)
Merge(x, y) ==
    IF x = <<>> THEN <<>>
    ELSE LET Same(row) == row.key = Head(x).key
             hits == SelectSeq(y, Same)
         IN  [j \in 1..Len(hits) |->
                 [key |-> Head(x).key, scores |-> Head(x).scores @@ hits[j].scores]]
             \o Merge(Tail(x), y)

\* reduce(lambda x, y: pd.merge(x, y, on=ind_cols), df_list), df_list not empty
RECURSIVE ReduceMerge(_)
ReduceMerge(df_list) ==
    IF Len(df_list) = 1 THEN df_list[1]
    ELSE Merge(ReduceMerge(SubSeq(df_list, 1, Len(df_list) - 1)), df_list[Len(df_list)])

\* the loop over interval_ranges, from its k-th range on: the wis
\* accumulated and the frames collected, or the exception raised
RECURSIVE RangeLoop(_, _, _, _, _, _)
RangeLoop(obsT, predT, interval_ranges, k, wis, df_list) ==
    IF k > Len(interval_ranges)
    THEN [status |-> "ok", wis |-> wis, df_list |-> df_list]
    ELSE LET interval_range == interval_ranges[k]
             obs == get_value(obsT)
             lowq == get_quantile(predT, QLow(interval_range))
             uppq == get_quantile(predT, QUpp(interval_range))
             score == interval_score(obs, lowq, uppq, interval_range)
             alpha == WisAlpha(interval_range)
         IN  IF BroadcastLen(Len(lowq), Len(uppq)) < 0 THEN Raise("ValueError")
             ELSE IF NotMonotonic(lowq, uppq) THEN Raise("RuntimeError")
             ELSE IF score.status # "ok" THEN score
             ELSE IF BroadcastLen(Len(wis), Len(obs)) # Len(wis) THEN Raise("ValueError")
             ELSE RangeLoop(obsT, predT, interval_ranges, k + 1,
                     [i \in 1..Len(wis) |->
                         RAdd(wis[i], RMul(RMul(RHalf, alpha),
                                           At(score.value.interval_score, i)))],
                     Append(df_list, ScoreFrame(obsT, score.value)))

\* df['point_absolute_error'] = ...
PointAbsoluteErrorColumn(point_absolute_error, median_absolute_error) ==
    median_absolute_error

\* the part of the function after the three checks
ScoreRows(obsT, predT, interval_ranges) ==
    LET median == get_quantile(predT, 100)
        point == get_point(predT)
        obs == get_value(obsT)
    IN  IF BroadcastLen(Len(obs), Len(point)) < 0 THEN Raise("ValueError")
        ELSE IF BroadcastLen(Len(obs), Len(median)) < 0 THEN Raise("ValueError")
        ELSE
        LET point_absolute_error == AbsDiff(obs, point)
            median_absolute_error == AbsDiff(obs, median)
            median_absolute_error_underprediction ==
                StepTimes(median, obs, median_absolute_error)
            median_absolute_error_overprediction ==
                StepTimes(obs, median, median_absolute_error)
            loop == RangeLoop(obsT, predT, interval_ranges, 1,
                              [i \in 1..Len(median_absolute_error) |->
                                  RMul(RHalf, median_absolute_error[i])],
                              <<>>)
        IN  IF loop.status # "ok" THEN Raise(loop.status)
            ELSE IF loop.df_list = <<>> THEN Raise("TypeError")  \* reduce() of an empty list
            ELSE
            LET wis == [i \in 1..Len(loop.wis) |->
                           RDiv(loop.wis[i], WisNorm(interval_ranges))]
                df == ReduceMerge(loop.df_list)
                pae == PointAbsoluteErrorColumn(point_absolute_error,
                                                median_absolute_error)
            IN  IF Len(wis) # Len(df) \/ Len(pae) # Len(df)
                   \/ Len(median_absolute_error) # Len(df)
                THEN Raise("ValueError")     \* a column of another length
                ELSE Return([i \in 1..Len(df) |->
                        [key |-> df[i].key,
                         scores |-> df[i].scores,
                         wis |-> wis[i],
                         point_absolute_error |-> pae[i],
                         median_absolute_error |-> median_absolute_error[i],
                         median_absolute_error_underprediction |->
                             median_absolute_error_underprediction[i],
                         median_absolute_error_overprediction |->
                             median_absolute_error_overprediction[i]]])

all_timestamped_scores_from_df(obsT, predT, interval_ranges) ==
    IF KeysMismatch(obsT, predT) THEN Raise("ValueError")
    ELSE IF MedianMissing(predT) THEN Raise("ValueError")
    ELSE IF Len(get_point(predT)) = 0 THEN Raise("ValueError")
    ELSE ScoreRows(obsT, predT, interval_ranges)

(***************************************************************************)
(* score_utils.all_coverages_from_df                                       *)
(***************************************************************************)
\* the loop over interval_ranges, from its k-th range on
RECURSIVE CoverageLoop(_, _, _, _, _)
CoverageLoop(obsT, predT, interval_ranges, k, covs) ==
    IF k > Len(interval_ranges) THEN Return(covs)
    ELSE LET interval_range == interval_ranges[k]
             cov == coverage(get_value(obsT),
                             get_quantile(predT, QLow(interval_range)),
                             get_quantile(predT, QUpp(interval_range)))
         IN  IF cov.status # "ok" THEN cov
             ELSE CoverageLoop(obsT, predT, interval_ranges, k + 1,
                               Append(covs, [interval_range |-> interval_range,
                                             cov |-> cov.value]))

\* the returned dict as the sequence of its (range, coverage) entries
all_coverages_from_df(obsT, predT, interval_ranges) ==
    IF KeysMismatch(obsT, predT) THEN Raise("ValueError")
    ELSE CoverageLoop(obsT, predT, interval_ranges, 1, <<>>)

(***************************************************************************)
(* score_utils.all_scores_from_df                                          *)
(***************************************************************************)
\* the default of the interval_ranges parameter of the three functions
DefaultIntervalRanges == <<10, 20, 30, 40, 50, 60, 70, 80, 90, 95, 98>>

\* predictions.filter(predictions[col].isin(observations[col])) and
\* observations.filter(observations[col].isin(predictions[col]))
FilterOn(obsT, predT, col) ==
    [pred |-> filter(predT, [i \in 1..Len(predT.rows) |->
                 predT.rows[i][col] \in ColumnValues(obsT, col)]),
     obs |-> filter(obsT, [i \in 1..Len(obsT.rows) |->
                 obsT.rows[i][col] \in ColumnValues(predT, col)])]

\* for col in observations.ind_cols: pred = ...; obs = ...
\* every pass filters the tables that were passed in, so the last one stays
RECURSIVE IntersectLoop(_, _, _, _, _)
IntersectLoop(obsT, predT, cols, k, pair) ==
    IF k > Len(cols) THEN pair
    ELSE IntersectLoop(obsT, predT, cols, k + 1, FilterOn(obsT, predT, cols[k]))

Aligned(obsT, predT, mismatched_allowed) ==
    IF mismatched_allowed
    THEN IntersectLoop(obsT, predT, ind_cols(obsT), 1, [pred |-> predT, obs |-> obsT])
    ELSE [pred |-> predT, obs |-> obsT]

\* a numpy float divided by a float: inf or nan where the divisor is zero
FloatDiv(a, b) ==
    IF IsNaN(a) \/ IsNaN(b) THEN NaN
    ELSE IF b.n = 0 THEN (IF a.n = 0 THEN NaN ELSE Inf(a.n))
    ELSE RDiv(a, b)

\* Series.sum() and Series.mean() of a column without missing values
ColSum(col) == RSum(col)
ColMean(col) == IF Len(col) = 0 THEN NaN ELSE RDiv(RSum(col), RInt(Len(col)))

RangeColumn(df, interval_range, part) ==
    [i \in 1..Len(df) |-> df[i].scores[interval_range][part]]

\* (a variant that normalises by the number of default ranges)
RangeFractionsDefaultNorm(df, interval_ranges, interval_range, wis_total) ==
    LET alpha == RSub(ROne, Rat(interval_range, 100))
        norm == RDiv(RAdd(RInt(Len(DefaultIntervalRanges)), RHalf), RMul(RHalf, alpha))
        Fraction(part) ==
            FloatDiv(ColSum(RangeColumn(df, interval_range, part)),
                     RMul(norm, wis_total))
    IN  [interval_range |-> interval_range,
         dispersion |-> Fraction("dispersion"),
         underprediction |-> Fraction("underprediction"),
         overprediction |-> Fraction("overprediction")]
\* the three fractions of one range of the caller's interval_ranges
RangeFractions(df, interval_ranges, interval_range, wis_total) ==
    LET alpha == RSub(ROne, Rat(interval_range, 100))
        norm == RDiv(RAdd(RInt(Len(interval_ranges)), RHalf), RMul(RHalf, alpha))
        Fraction(part) ==
            FloatDiv(ColSum(RangeColumn(df, interval_range, part)),
                     RMul(norm, wis_total))
    IN  [interval_range |-> interval_range,
         dispersion |-> Fraction("dispersion"),
         underprediction |-> Fraction("underprediction"),
         overprediction |-> Fraction("overprediction")]

\* the loop over the caller's interval_ranges, from its k-th range on
RECURSIVE FractionLoop(_, _, _, _, _)
FractionLoop(df, interval_ranges, k, wis_total, fractions) ==
    IF k > Len(interval_ranges) THEN Return(fractions)
    ELSE IF interval_ranges[k] = 100
         THEN Raise("ZeroDivisionError")       \* norm divides by 0.5 * alpha
    ELSE IF Len(df) > 0 /\ interval_ranges[k] \notin DOMAIN df[1].scores
         THEN Raise("KeyError")                \* df has no column of that range
    ELSE FractionLoop(df, interval_ranges, k + 1, wis_total,
             Append(fractions,
                    RangeFractions(df, interval_ranges, interval_ranges[k], wis_total)))

\* the entries of the summary dict, in the order the code sets them
SummaryDict(df, covs, wis_total, zero, fractions) ==
    [cov |-> covs,
     nb_t_match |-> Cardinality({i \in 1..Len(df) : ~IsNaN(df[i].wis)}),
     wis_total |-> wis_total,
     wis_mean |-> ColMean([i \in 1..Len(df) |-> df[i].wis]),
     point_absolute_error_total |->
         ColSum([i \in 1..Len(df) |-> df[i].point_absolute_error]),
     point_absolute_error_mean |->
         ColMean([i \in 1..Len(df) |-> df[i].point_absolute_error]),
     zero_wis_fraction |-> zero,
     range_wis_fraction |-> fractions,
     dispersion_wis_fraction |->
         RSum([k \in 1..Len(fractions) |-> fractions[k].dispersion]),
     underprediction_wis_fraction |->
         RAdd(RSum([k \in 1..Len(fractions) |-> fractions[k].underprediction]),
              zero.underprediction),
     overprediction_wis_fraction |->
         RAdd(RSum([k \in 1..Len(fractions) |-> fractions[k].overprediction]),
              zero.overprediction)]

\* the fractions of interval range 0: 0.5 * sum / ((K + 1/2) * wis_total)
ZeroFractions(df, interval_ranges, wis_total) ==
    LET norm0 == RMul(RAdd(RInt(Len(interval_ranges)), RHalf), wis_total)
    IN  [underprediction |->
             FloatDiv(RMul(RHalf, ColSum([i \in 1..Len(df) |->
                                 df[i].median_absolute_error_underprediction])), norm0),
         overprediction |->
             FloatDiv(RMul(RHalf, ColSum([i \in 1..Len(df) |->
                                 df[i].median_absolute_error_overprediction])), norm0)]

SummaryOf(df, covs, wis_total, zero, loop) ==
    IF loop.status # "ok" THEN loop
    ELSE Return([d |-> SummaryDict(df, covs, wis_total, zero, loop.value), df |-> df])

SummaryWith(df, covs, interval_ranges, wis_total) ==
    SummaryOf(df, covs, wis_total, ZeroFractions(df, interval_ranges, wis_total),
              FractionLoop(df, interval_ranges, 1, wis_total, <<>>))

\* the part of the function after the two calls
Summary(df, covs, interval_ranges) ==
    SummaryWith(df, covs, interval_ranges, ColSum([i \in 1..Len(df) |-> df[i].wis]))

\* d = all_coverages_from_df(obs, pred) and what follows it
AfterCoverages(df, d, interval_ranges) ==
    IF d.status # "ok" THEN d ELSE Summary(df, d.value, interval_ranges)

\* df = all_timestamped_scores_from_df(obs, pred, **kwargs) and what follows
AfterScores(pair, df, interval_ranges) ==
    IF df.status # "ok" THEN df
    ELSE AfterCoverages(df.value,
                        all_coverages_from_df(pair.obs, pair.pred, DefaultIntervalRanges),
                        interval_ranges)

\* the tables that are scored, with the (d, df) returned or the exception
ScoreAligned(pair, interval_ranges) ==
    pair @@ AfterScores(pair,
                        all_timestamped_scores_from_df(pair.obs, pair.pred,
                                                       DefaultIntervalRanges),
                        interval_ranges)

all_scores_from_df(obsT, predT, interval_ranges, mismatched_allowed) ==
    ScoreAligned(Aligned(obsT, predT, mismatched_allowed), interval_ranges)

(***************************************************************************)
(* The basic score functions applied to vectors (specification SpecFn).    *)
(***************************************************************************)
\* three values give every order of an observation, a lower and an upper
FnValues == {0, 1, 2}
Vectors == UNION {[1..n -> FnValues] : n \in 0..MaxLen}
\* valid ranges, the two ends of [0, 100], and one value off each end
IntervalRangeArgs == {-1, 0, 50, 80, 100, 101}

EmptyTable == [rows |-> <<>>, other_ind_cols |-> <<>>]

\* the vectors of the tests of the two functions, in hundredths
TestVectors ==
    {[observation |-> <<50, 50, 50>>, lower |-> <<40, 50, 60>>,
      upper |-> <<45, 55, 65>>],
     [observation |-> <<10, 10, 10>>, lower |-> <<10, 10, 10>>,
      upper |-> <<10, 10>>]}

\* the list of floats v[i] / u
Floats(v, u) == [i \in 1..Len(v) |-> Rat(v[i], u)]

InitFn ==
    /\ \/ /\ unit = 1
          /\ observation \in Vectors
          /\ lower \in Vectors
          /\ upper \in Vectors
       \/ /\ unit = 100
          /\ \E t \in TestVectors :
              observation = t.observation /\ lower = t.lower /\ upper = t.upper
    /\ observations = EmptyTable
    /\ predictions = EmptyTable
    /\ predictions_list = <<>>
    /\ out = NoCall

Called(fn, interval_ranges, mismatched_allowed, res) ==
    [fn |-> fn, interval_ranges |-> interval_ranges,
     mismatched_allowed |-> mismatched_allowed, res |-> res]

CallIntervalScore ==
    /\ out = NoCall
    /\ \E interval_range \in IntervalRangeArgs :
        out' = Called("interval_score", <<interval_range>>, FALSE,
                      interval_score(Floats(observation, unit), Floats(lower, unit),
                                     Floats(upper, unit), interval_range))
    /\ UNCHANGED <<observation, lower, upper, unit, observations, predictions,
                 predictions_list>>

CallCoverage ==
    /\ out = NoCall
    /\ out' = Called("coverage", <<>>, FALSE,
                     coverage(Floats(observation, unit), Floats(lower, unit),
                              Floats(upper, unit)))
    /\ UNCHANGED <<observation, lower, upper, unit, observations, predictions,
                 predictions_list>>

NextFn == CallIntervalScore \/ CallCoverage

SpecFn == InitFn /\ [][NextFn]_vars

(***************************************************************************)
(* The dataframe functions applied to tables (specification Spec).         *)
(*                                                                         *)
(* The tables are built the way the tests build them: the observations     *)
(* have one row per key tuple; the predictions have, per key tuple, a      *)
(* point row (or none), a median row (or none) and the quantile rows of    *)
(* the 50% and the 80% interval.  Two families of inputs: one varies the   *)
(* key tuples of the two tables around the numbers of the tests, the       *)
(* other varies the numbers over tables with the same key tuples.          *)
(***************************************************************************)
Dates == {1, 2}
Locations == {1, 2}
Keys == Dates \X Locations
Absent == 0 - 1

ObsData(keys, o) ==
    LET ks == SortedTuples(keys)
    IN  [i \in 1..Len(ks) |->
            [date |-> ks[Len(ks) + 1 - i][1], location |-> ks[Len(ks) + 1 - i][2],
             value |-> o[ks[Len(ks) + 1 - i][1]]]]

\* the rows of one slot (point, or one quantile) for the keys, each value
\* raised by one at the second date; no rows for an absent value
SlotData(keys, type, quantile, v, shift) ==
    IF v = Absent THEN <<>>
    ELSE LET ks == SortedTuples(keys)
         IN  [i \in 1..Len(ks) |->
                 [date |-> ks[i][1], location |-> ks[i][2], type |-> type,
                  quantile |-> quantile, value |-> v + shift + (ks[i][1] - 1)]]

\* as in the tests, the rows come slot by slot; the constructor sorts them.
\* The 80% interval is the 50% interval widened by one on each side.
PredData(keys, pointKeys, p) ==
    SlotData(pointKeys, "point", QuantileNaN, p.point, 0)
    \o SlotData(keys, "quantile", 20, p.low, 0 - 1)
    \o SlotData(keys, "quantile", 50, p.low, 0)
    \o SlotData(keys, "quantile", 100, p.median, 0)
    \o SlotData(keys, "quantile", 150, p.upp, 0)
    \o SlotData(keys, "quantile", 180, p.upp, 1)

Values == 0..MaxVal
Profiles == [point : Values, median : Values, low : Values, upp : Values]
\* the numbers of the tests of all_timestamped_scores_from_df, with and
\* without the point rows and the median rows
TestProfiles ==
    {[point |-> 2, median |-> 2, low |-> 0, upp |-> 2],
     [point |-> Absent, median |-> 2, low |-> 0, upp |-> 2],
     [point |-> 2, median |-> Absent, low |-> 0, upp |-> 2]}

\* the key tuples are unique under the independent columns
UniqueKeys(keys, other_ind_cols) ==
    other_ind_cols # <<>> \/ \A a, b \in keys : a[1] = b[1] => a = b

OtherIndCols == {<<>>, <<"location">>}

InitTables(obsKeys, predKeys, pointKeys, o, p, other_ind_cols) ==
    /\ observations = NewTable(ObsData(obsKeys, o), other_ind_cols)
    /\ predictions = NewTable(PredData(predKeys, pointKeys, p), other_ind_cols)
    /\ observation = <<>>
    /\ lower = <<>>
    /\ upper = <<>>
    /\ unit = 1
    /\ predictions_list = <<>>
    /\ out = NoCall

\* the key tuples vary
InitKeys ==
    \E obsKeys \in SUBSET Keys \ {{}}, predKeys \in SUBSET Keys \ {{}},
       p \in TestProfiles, other_ind_cols \in OtherIndCols :
        /\ UniqueKeys(obsKeys, other_ind_cols)
        /\ UniqueKeys(predKeys, other_ind_cols)
        /\ \E pointKeys \in {predKeys, {k \in predKeys : k[1] = 1}} :
            InitTables(obsKeys, predKeys, pointKeys,
                       [d \in Dates |-> 1], p, other_ind_cols)

\* the numbers vary; as in the tests the observed value is the same at
\* every date, and the predictions of the second date are one higher
InitValues ==
    \E keys \in {{<<1, 1>>, <<2, 1>>}, Keys}, o \in Values, p \in Profiles :
        InitTables(keys, keys, keys, [d \in Dates |-> o], p,
                   IF keys = Keys THEN <<"location">> ELSE <<>>)

\* the full fan of quantiles that the default interval_ranges need: per key
\* tuple the median and, for the k-th default range, the quantiles
\* 0.5 -/+ range/200 at the distance width + (k - 1) * spread below and
\* above the median; no point rows and no type column
FanProfiles == [median : Values, width : 0..1, spread : 0..1]

RECURSIVE FanData(_, _, _)
FanData(keys, f, k) ==
    IF k = 0 THEN SlotData(keys, "quantile", 100, f.median, 0)
    ELSE FanData(keys, f, k - 1)
         \o SlotData(keys, "quantile", QLow(DefaultIntervalRanges[k]), f.median,
                     0 - (f.width + (k - 1) * f.spread))
         \o SlotData(keys, "quantile", QUpp(DefaultIntervalRanges[k]), f.median,
                     f.width + (k - 1) * f.spread)

\* one key tuple, two dates, or two locations at one date
FanKeySets == {{<<1, 1>>}, {<<1, 1>>, <<2, 1>>}, {<<1, 1>>, <<1, 2>>}}

InitFan ==
    \E keys \in FanKeySets, o \in Values, f \in FanProfiles :
        LET other_ind_cols ==
                IF \E a, b \in keys : a[2] # b[2] THEN <<"location">> ELSE <<>>
        IN  /\ observations = NewTable(ObsData(keys, [d \in Dates |-> o]),
                                       other_ind_cols)
            /\ predictions = NewTable(FanData(keys, f, Len(DefaultIntervalRanges)),
                                      other_ind_cols)
            /\ observation = <<>>
            /\ lower = <<>>
            /\ upper = <<>>
            /\ unit = 1
            /\ predictions_list = <<>>
            /\ out = NoCall

Init == InitKeys \/ InitValues \/ InitFan

RangeLists == {<<>>, <<0>>, <<10>>, <<50>>, <<80>>, <<50, 80>>}
\* the caller's lists for all_scores_from_df
AllScoresRangeLists == {<<50, 80>>, DefaultIntervalRanges}

CallAllTimestampedScores ==
    /\ out = NoCall
    /\ \E interval_ranges \in RangeLists :
        out' = Called("all_timestamped_scores_from_df", interval_ranges, FALSE,
                      all_timestamped_scores_from_df(observations, predictions,
                                                     interval_ranges))
    /\ UNCHANGED <<observation, lower, upper, unit, observations, predictions,
                 predictions_list>>

CallAllCoverages ==
    /\ out = NoCall
    /\ \E interval_ranges \in RangeLists :
        out' = Called("all_coverages_from_df", interval_ranges, FALSE,
                      all_coverages_from_df(observations, predictions, interval_ranges))
    /\ UNCHANGED <<observation, lower, upper, unit, observations, predictions,
                 predictions_list>>

CallAllScores ==
    /\ out = NoCall
    /\ \E interval_ranges \in AllScoresRangeLists, mismatched_allowed \in BOOLEAN :
        out' = Called("all_scores_from_df", interval_ranges, mismatched_allowed,
                      all_scores_from_df(observations, predictions, interval_ranges,
                                         mismatched_allowed))
    /\ UNCHANGED <<observation, lower, upper, unit, observations, predictions,
                 predictions_list>>

Next == CallAllTimestampedScores \/ CallAllCoverages \/ CallAllScores

Spec == Init /\ [][Next]_vars

(***************************************************************************)
(* The same functions on predictions that are incomplete (specification    *)
(* SpecIncomplete): the key tuples of the two tables match and every key   *)
(* tuple has the quantile rows of the 50% and the 80% interval, but the    *)
(* median rows exist for one of the two dates only.                        *)
(***************************************************************************)
IncompleteData(keys, medianKeys, p) ==
    SlotData(keys, "quantile", 20, p.low, 0 - 1)
    \o SlotData(keys, "quantile", 50, p.low, 0)
    \o SlotData(medianKeys, "quantile", 100, p.median, 0)
    \o SlotData(keys, "quantile", 150, p.upp, 0)
    \o SlotData(keys, "quantile", 180, p.upp, 1)

InitIncomplete ==
    \E medianKeys \in {{<<1, 1>>}, {<<2, 1>>}}, o \in Values, p \in Profiles :
        /\ p.point = p.median
        /\ observations = NewTable(ObsData({<<1, 1>>, <<2, 1>>}, [d \in Dates |-> o]),
                                   <<>>)
        /\ predictions = NewTable(IncompleteData({<<1, 1>>, <<2, 1>>}, medianKeys, p),
                                  <<>>)
        /\ observation = <<>>
        /\ lower = <<>>
        /\ upper = <<>>
        /\ unit = 1
        /\ predictions_list = <<>>
        /\ out = NoCall

SpecIncomplete == InitIncomplete /\ [][Next]_vars

(***************************************************************************)
(* filter on the two tables (specification SpecFilter).  The mask selects  *)
(* every row or the rows of one date; out holds the receiver's name, the   *)
(* mask and the table that filter returns.                                 *)
(***************************************************************************)
\* bool_df for "every row" (d = 0) and for "date == d"
Mask(tbl, d) == [i \in 1..Len(tbl.rows) |-> d = 0 \/ tbl.rows[i][t_col] = d]

MaskDates == {0} \cup Dates

Filtered(self, tbl, bool_df) ==
    [fn |-> "filter", self |-> self, bool_df |-> bool_df, res |-> filter(tbl, bool_df)]

CallFilterObservations ==
    /\ out = NoCall
    /\ \E d \in MaskDates :
        out' = Filtered("observations", observations, Mask(observations, d))
    /\ UNCHANGED <<observation, lower, upper, unit, observations, predictions,
                 predictions_list>>

CallFilterPredictions ==
    /\ out = NoCall
    /\ \E d \in MaskDates :
        out' = Filtered("predictions", predictions, Mask(predictions, d))
    /\ UNCHANGED <<observation, lower, upper, unit, observations, predictions,
                 predictions_list>>

NextFilter == CallFilterObservations \/ CallFilterPredictions

SpecFilter == Init /\ [][NextFilter]_vars

(***************************************************************************)
(* ensemble_models: median_ensemble and extreme_ensemble (specification    *)
(* SpecEnsemble).  The tables of predictions_list have the columns of      *)
(* their independent variables, type, quantile and value and no other      *)
(* column; the values of an ensemble are floats (exact rationals).         *)
(***************************************************************************)
\* pd.concat(predictions_list): the rows of the tables, one table after the
\* other
RECURSIVE ConcatRows(_)
ConcatRows(tables) ==
    IF tables = <<>> THEN <<>>
    ELSE Head(tables).rows \o ConcatRows(Tail(tables))

\* the order of the group keys: a missing quantile (NaN) comes last, and
\* the types in alphabetical order
GroupRank(g, by) ==
    [i \in 1..Len(by) |->
        IF by[i] = "type" THEN (IF g[i] = "point" THEN 0 ELSE 1)
        ELSE IF by[i] = "quantile" /\ g[i] = QuantileNaN THEN 201
        ELSE g[i]]

RECURSIVE SortedGroups(_, _)
SortedGroups(S, by) ==
    IF S = {} THEN <<>>
    ELSE <<CHOOSE a \in S :
               \A b \in S : ~TupleLess(GroupRank(b, by), GroupRank(a, by))>>
         \o SortedGroups(S \ {CHOOSE a \in S :
               \A b \in S : ~TupleLess(GroupRank(b, by), GroupRank(a, by))}, by)

\* the values of the rows of the group g, in the order of the rows
RECURSIVE GroupValues(_, _, _)
GroupValues(rows, by, g) ==
    IF rows = <<>> THEN <<>>
    ELSE (IF KeyOf(Head(rows), by) = g THEN <<RInt(Head(rows)["value"])>> ELSE <<>>)
         \o GroupValues(Tail(rows), by, g)

\* min(), max() and median() of the values of a group
RMin2(a, b) == IF RLt(b, a) THEN b ELSE a
RMax2(a, b) == IF RLt(a, b) THEN b ELSE a

RECURSIVE GroupMin(_)
GroupMin(values) ==
    IF Len(values) = 1 THEN values[1] ELSE RMin2(Head(values), GroupMin(Tail(values)))

RECURSIVE GroupMax(_)
GroupMax(values) ==
    IF Len(values) = 1 THEN values[1] ELSE RMax2(Head(values), GroupMax(Tail(values)))

RECURSIVE InsertValue(_, _)
InsertValue(sorted, x) ==
    IF sorted = <<>> THEN <<x>>
    ELSE IF RLt(x, Head(sorted)) THEN <<x>> \o sorted
    ELSE <<Head(sorted)>> \o InsertValue(Tail(sorted), x)

RECURSIVE SortValues(_)
SortValues(values) ==
    IF values = <<>> THEN <<>>
    ELSE InsertValue(SortValues(Tail(values)), Head(values))

\* the middle value, or the mean of the two middle values
MiddleOf(sorted) ==
    IF Len(sorted) % 2 = 1 THEN sorted[(Len(sorted) + 1) \div 2]
    ELSE RDiv(RAdd(sorted[Len(sorted) \div 2], sorted[Len(sorted) \div 2 + 1]), RInt(2))

GroupMedian(values) == MiddleOf(SortValues(values))

\* (a variant that takes the median of the values below quantile 0.5)
AggregateMedianBelow(how, values) == GroupMedian(values)
Aggregate(how, values) ==
    IF how = "min" THEN GroupMin(values)
    ELSE IF how = "max" THEN GroupMax(values)
    ELSE GroupMedian(values)

\* the row of the group g after reset_index: the columns of by and the
\* aggregated value
GroupRow(g, by, value) ==
    [c \in {by[i] : i \in 1..Len(by)} \cup {"value"} |->
        IF c = "value" THEN value ELSE g[CHOOSE i \in 1..Len(by) : by[i] = c]]

\* rows.groupby(by=by, dropna=False).<how>().reset_index(): one row for
\* each group, in the order of the group keys
GroupRows(rows, by, groups, how) ==
    [k \in 1..Len(groups) |->
        GroupRow(groups[k], by, Aggregate(how, GroupValues(rows, by, groups[k])))]

GroupBy(rows, by, how) ==
    GroupRows(rows, by, SortedGroups({KeyOf(rows[i], by) : i \in 1..Len(rows)}, by), how)

\* ind_cols + [type_col,quantile_col]
GroupCols(other_ind_cols) == <<t_col>> \o other_ind_cols \o <<"type", "quantile">>

\* the boolean masks of extreme_ensemble
BelowHalf(rows) ==
    [i \in 1..Len(rows) |->
        rows[i]["quantile"] # QuantileNaN /\ rows[i]["quantile"] < 100]
AboveHalf(rows) ==
    [i \in 1..Len(rows) |->
        rows[i]["quantile"] # QuantileNaN /\ rows[i]["quantile"] > 100]
CloseToHalf(rows) == [i \in 1..Len(rows) |-> IsClose(rows[i]["quantile"], 100)]
IsPoint(rows) == [i \in 1..Len(rows) |-> rows[i]["type"] = "point"]

ExtremeRows(all_predictions, by) ==
    GroupBy(SelectRows(all_predictions, BelowHalf(all_predictions)), by, "min")
    \o GroupBy(SelectRows(all_predictions, CloseToHalf(all_predictions)), by, "median")
    \o GroupBy(SelectRows(all_predictions, IsPoint(all_predictions)), by, "median")
    \o GroupBy(SelectRows(all_predictions, AboveHalf(all_predictions)), by, "max")

extreme_ensemble(tables) ==
    IF tables = <<>> THEN Raise("IndexError")     \* predictions_list[0]
    ELSE Return(NewTable(ExtremeRows(ConcatRows(tables),
                                     GroupCols(tables[1].other_ind_cols)),
                         tables[1].other_ind_cols))

median_ensemble(tables) ==
    IF tables = <<>> THEN Raise("IndexError")     \* predictions_list[0]
    ELSE Return(NewTable(GroupBy(ConcatRows(tables),
                                 GroupCols(tables[1].other_ind_cols), "median"),
                         tables[1].other_ind_cols))

\* the forecasts of the members: with and without point rows
EnsembleProfiles ==
    {[point |-> 0, median |-> 1, low |-> 0, upp |-> 2],
     [point |-> 2, median |-> 2, low |-> 1, upp |-> 2],
     [point |-> 1, median |-> 3, low |-> 2, upp |-> 3],
     [point |-> Absent, median |-> 2, low |-> 2, upp |-> 2]}

\* the key tuples of a member, for the lists without and with the
\* independent column location
EnsembleKeySets(other_ind_cols) ==
    IF other_ind_cols = <<>> THEN {{<<1, 1>>}, {<<1, 1>>, <<2, 1>>}}
    ELSE {{<<1, 1>>}, {<<1, 1>>, <<1, 2>>}}

\* the columns of a member: location is a column only when it is an
\* independent column
MemberColumns(other_ind_cols) ==
    {t_col, "type", "quantile", "value"}
        \cup {other_ind_cols[i] : i \in 1..Len(other_ind_cols)}

MemberData(keys, p, other_ind_cols) ==
    [i \in 1..Len(PredData(keys, keys, p)) |->
        [c \in MemberColumns(other_ind_cols) |-> PredData(keys, keys, p)[i][c]]]

Members(other_ind_cols) ==
    {NewTable(MemberData(keys, p, other_ind_cols), other_ind_cols) :
        keys \in EnsembleKeySets(other_ind_cols), p \in EnsembleProfiles}

MaxMembers == 3

InitEnsemble ==
    /\ \E other_ind_cols \in OtherIndCols, n \in 0..MaxMembers :
        predictions_list \in [1..n -> Members(other_ind_cols)]
    /\ observation = <<>>
    /\ lower = <<>>
    /\ upper = <<>>
    /\ unit = 1
    /\ observations = EmptyTable
    /\ predictions = EmptyTable
    /\ out = NoCall

Ensembled(fn, res) == [fn |-> fn, res |-> res]

CallExtremeEnsemble ==
    /\ out = NoCall
    /\ out' = Ensembled("extreme_ensemble", extreme_ensemble(predictions_list))
    /\ UNCHANGED <<observation, lower, upper, unit, observations, predictions,
                 predictions_list>>

CallMedianEnsemble ==
    /\ out = NoCall
    /\ out' = Ensembled("median_ensemble", median_ensemble(predictions_list))
    /\ UNCHANGED <<observation, lower, upper, unit, observations, predictions,
                 predictions_list>>

NextEnsemble == CallExtremeEnsemble \/ CallMedianEnsemble

SpecEnsemble == InitEnsemble /\ [][NextEnsemble]_vars

(***************************************************************************)
(* Properties of the basic score functions, checked under SpecFn.          *)
(***************************************************************************)
EqualLengths == Len(lower) = Len(upper) /\ Len(lower) = Len(observation)
ObservationWithin(i) == lower[i] <= observation[i] /\ observation[i] <= upper[i]
RMax0(x) == IF RLt(RZero, x) THEN x ELSE RZero
\* 2/alpha for alpha = 1 - r/100, as the specification writes it
PenaltyFactor(r) == RDiv(RInt(2), RSub(ROne, Rat(r, 100)))
CalledIntervalScore == out.fn = "interval_score"
CalledCoverage == out.fn = "coverage"
RangeArg == out.interval_ranges[1]

\* C1: for equal-length vectors and interval_range r in [0, 100],
\* interval_score returns, for every element i with alpha = 1 - r/100,
\* dispersion_i = upper_i - lower_i,
\* underprediction_i = (2/alpha) * max(lower_i - obs_i, 0),
\* overprediction_i = (2/alpha) * max(obs_i - upper_i, 0) and
\* interval_score_i = the sum of the three.
C1_IntervalScoreFormula ==
    (CalledIntervalScore /\ EqualLengths /\ RangeArg \in 0..100) =>
        /\ out.res.status = "ok"
        /\ \A i \in 1..Len(observation) :
            LET d == Rat(upper[i] - lower[i], unit)
                u == RMul(PenaltyFactor(RangeArg),
                          RMax0(Rat(lower[i] - observation[i], unit)))
                o == RMul(PenaltyFactor(RangeArg),
                          RMax0(Rat(observation[i] - upper[i], unit)))
            IN  /\ out.res.value.dispersion[i] = d
                /\ out.res.value.underprediction[i] = u
                /\ out.res.value.overprediction[i] = o
                /\ out.res.value.interval_score[i] = RAdd(RAdd(d, u), o)

\* C1 for the ranges below 100: the formula holds wherever alpha is not zero
C1_FormulaBelow100 ==
    (CalledIntervalScore /\ EqualLengths /\ RangeArg \in 0..99) => C1_IntervalScoreFormula

\* C5: for every interval_range r in the closed range [0, 100], r = 0 and
\* r = 100 included, and every observation within [lower, upper],
\* interval_score returns a score equal to upper - lower, with zero
\* underprediction and overprediction terms.
C5_ScoreIsWidthWhenWithin ==
    (/\ CalledIntervalScore /\ EqualLengths /\ RangeArg \in 0..100
     /\ \A i \in 1..Len(observation) : ObservationWithin(i)) =>
        /\ out.res.status = "ok"
        /\ \A i \in 1..Len(observation) :
            /\ out.res.value.interval_score[i] = Rat(upper[i] - lower[i], unit)
            /\ out.res.value.underprediction[i] = RZero
            /\ out.res.value.overprediction[i] = RZero

NumberWithin == Cardinality({i \in 1..Len(observation) : ObservationWithin(i)})

\* what C6 says of the value coverage returned
CoverageIsFraction ==
    /\ out.res.status = "ok"
    /\ IsFinite(out.res.value)
    /\ out.res.value.n * Len(observation) = NumberWithin * out.res.value.d
    /\ RLe(RZero, out.res.value) /\ RLe(out.res.value, ROne)
    /\ (out.res.value = ROne <=> \A i \in 1..Len(observation) : ObservationWithin(i))

\* C6 as stated: coverage returns the fraction of elements i with
\* lower_i <= obs_i <= upper_i; for every equal-length input the result is
\* in [0, 1], and it is 1 if and only if every observation is within its
\* [lower, upper].
C6_CoverageEveryInput == (CalledCoverage /\ EqualLengths) => CoverageIsFraction

\* C6 as amended: the same for every equal-length input that is not empty;
\* for three empty vectors coverage returns nan.
C6_CoverageNonEmpty ==
    (CalledCoverage /\ EqualLengths) =>
        IF Len(observation) = 0
        THEN out.res.status = "ok" /\ IsNaN(out.res.value)
        ELSE CoverageIsFraction

\* a coverage strictly between 0 and 1 has been returned, one of its
\* observations sitting on a bound of its interval
C6_Witness ==
    /\ CalledCoverage /\ EqualLengths /\ out.res.status = "ok"
    /\ out.res.value = RHalf
    /\ \E i \in 1..Len(observation) :
        ObservationWithin(i) /\ observation[i] = lower[i]

Scenario ==
    /\ unit = 100
    /\ observation = <<50, 50, 50>>
    /\ lower = <<40, 50, 60>>
    /\ upper = <<45, 55, 65>>

\* what C19 says of dispersion, underprediction and overprediction
ScenarioParts ==
    /\ out.res.status = "ok"
    /\ out.res.value.dispersion = <<Rat(5, 100), Rat(5, 100), Rat(5, 100)>>
    /\ out.res.value.underprediction = <<RZero, RZero, RDiv(Rat(2, 10), Rat(1, 2))>>
    /\ out.res.value.overprediction = <<RDiv(Rat(10, 100), Rat(1, 2)), RZero, RZero>>

\* C19 as stated: for the observation 0.5 at three points, lower =
\* [0.4, 0.5, 0.6], upper = [0.45, 0.55, 0.65] and interval_range 50,
\* interval_score returns dispersion = [0.05, 0.05, 0.05], underprediction =
\* [0, 0, 0.1*2/0.5], overprediction = [0.05*2/0.5, 0, 0] and
\* interval_score = [0.05 + 2*0.05, 0.05, 0.05 + 2*0.1].
C19_ScenarioAsStated ==
    (CalledIntervalScore /\ Scenario /\ RangeArg = 50) =>
        /\ ScenarioParts
        /\ out.res.value.interval_score =
               <<RAdd(Rat(5, 100), RMul(RInt(2), Rat(5, 100))), Rat(5, 100),
                 RAdd(Rat(5, 100), RMul(RInt(2), Rat(10, 100)))>>

\* C19 as amended: the same parts, and interval_score = their sum,
\* [0.05 + 0.05*2/0.5, 0.05, 0.05 + 0.1*2/0.5] = [0.25, 0.05, 0.45].
C19_ScenarioValues ==
    (CalledIntervalScore /\ Scenario /\ RangeArg = 50) =>
        /\ ScenarioParts
        /\ out.res.value.interval_score = <<Rat(25, 100), Rat(5, 100), Rat(45, 100)>>

\* interval_score has returned on the vectors of the scenario
C19_Witness ==
    /\ CalledIntervalScore /\ Scenario /\ RangeArg = 50
    /\ out.res.status = "ok"
    /\ Len(out.res.value.interval_score) = 3

\* C17: interval_score fails with a ValueError if the three sequences are
\* not all of the same length or if interval_range is outside [0, 100],
\* coverage fails with a ValueError if its three sequences are not all of
\* the same length, and no score value has been computed when the error
\* is raised.
C17_ValidationErrors ==
    /\ (CalledIntervalScore /\ (~EqualLengths \/ RangeArg \notin 0..100)) =>
        out.res = Raise("ValueError")
    /\ (CalledCoverage /\ ~EqualLengths) => out.res = Raise("ValueError")

\* interval_score was called on vectors of equal, non-zero length with a
\* range below 0, and raised
C17_Witness ==
    /\ CalledIntervalScore /\ EqualLengths /\ Len(observation) > 0
    /\ RangeArg < 0
    /\ out.res = Raise("ValueError")

(***************************************************************************)
(* Properties of the dataframe functions, checked under Spec.  They read   *)
(* the two tables by key tuple, not by position.                           *)
(***************************************************************************)
KeySet(tbl) == {KeyOf(tbl.rows[i], ind_cols(tbl)) : i \in 1..Len(tbl.rows)}
RowsAt(tbl, key) == {i \in 1..Len(tbl.rows) : KeyOf(tbl.rows[i], ind_cols(tbl)) = key}
\* the observed value of a key tuple
ObsAt(key) == RInt(observations.rows[CHOOSE i \in RowsAt(observations, key) : TRUE].value)
QuantileRowsAt(key, q) ==
    {i \in RowsAt(predictions, key) : predictions.rows[i].quantile = q}
PointRowsAt(key) == {i \in RowsAt(predictions, key) : predictions.rows[i].type = "point"}
\* the predicted value of a key tuple at a quantile (in units of 1/200)
PredAt(key, q) == RInt(predictions.rows[CHOOSE i \in QuantileRowsAt(key, q) : TRUE].value)
MedianAt(key) == PredAt(key, 100)
PointAt(key) == RInt(predictions.rows[CHOOSE i \in PointRowsAt(key) : TRUE].value)
HasPointRows == \E i \in 1..Len(predictions.rows) : predictions.rows[i].type = "point"
HasMedianRows == \E i \in 1..Len(predictions.rows) : IsClose(predictions.rows[i].quantile, 100)

\* the interval score of a key tuple for the range r, as section 4.1 defines it
IntervalScoreAt(key, r) ==
    RAdd(RAdd(RSub(PredAt(key, 100 + r), PredAt(key, 100 - r)),
              RMul(PenaltyFactor(r), RMax0(RSub(PredAt(key, 100 - r), ObsAt(key))))),
         RMul(PenaltyFactor(r), RMax0(RSub(ObsAt(key), PredAt(key, 100 + r)))))

\* 0.5*|obs - median| + the sum over the ranges of 0.5*(1 - r/100)*score_r
RECURSIVE WeightedSum(_, _, _)
WeightedSum(key, ranges, k) ==
    IF k = 0 THEN RMul(RHalf, RAbs(RSub(ObsAt(key), MedianAt(key))))
    ELSE RAdd(WeightedSum(key, ranges, k - 1),
              RMul(RMul(RHalf, RSub(ROne, Rat(ranges[k], 100))),
                   IntervalScoreAt(key, ranges[k])))

\* the value at q_low exceeds the value at q_upp
StrictlyAbove(key, r) == RLt(PredAt(key, 100 + r), PredAt(key, 100 - r))

CalledTimestamped == out.fn = "all_timestamped_scores_from_df"
CalledCoverages == out.fn = "all_coverages_from_df"
CalledAllScores == out.fn = "all_scores_from_df"
Returned == out.res.status = "ok"
\* the rows returned by all_timestamped_scores_from_df
Rows == out.res.value

\* C2: in every row produced by all_timestamped_scores_from_df for a
\* non-empty list of K ranges, wis = (0.5*|obs - median| + the sum over the
\* requested ranges r of 0.5*(1 - r/100)*interval_score_r) / (K + 0.5),
\* interval_score_r being the interval score of the observation against
\* the predictions at the quantiles 0.5 - r/200 and 0.5 + r/200.
C2_WisFormula ==
    (CalledTimestamped /\ Returned /\ out.interval_ranges # <<>>) =>
        \A i \in 1..Len(Rows) :
            /\ RowsAt(observations, Rows[i].key) # {}
            /\ QuantileRowsAt(Rows[i].key, 100) # {}
            /\ \A k \in 1..Len(out.interval_ranges) :
                /\ QuantileRowsAt(Rows[i].key, 100 - out.interval_ranges[k]) # {}
                /\ QuantileRowsAt(Rows[i].key, 100 + out.interval_ranges[k]) # {}
            /\ Rows[i].wis =
                   RDiv(WeightedSum(Rows[i].key, out.interval_ranges,
                                    Len(out.interval_ranges)),
                        Rat(2 * Len(out.interval_ranges) + 1, 2))

\* rows were produced for two ranges over four key tuples, one of them
\* with an observation outside its 50% interval
C2_Witness ==
    /\ CalledTimestamped /\ Returned
    /\ out.interval_ranges = <<50, 80>>
    /\ Len(Rows) = 4
    /\ \E i \in 1..Len(Rows) :
        /\ Rows[i].scores[50].underprediction # RZero
        /\ Rows[i].wis # RZero

\* C3: in every row of all_timestamped_scores_from_df, point_absolute_error
\* is |obs - point| for the key tuple, point being the value of its point
\* row; only when the predictions have no point row at all is the median
\* used for point, and no error is raised then.
C3_PointAbsoluteError ==
    /\ (/\ CalledTimestamped /\ Returned
        /\ HasPointRows => \A key \in KeySet(predictions) : PointRowsAt(key) # {}) =>
        \A i \in 1..Len(Rows) :
            Rows[i].point_absolute_error =
                RAbs(RSub(ObsAt(Rows[i].key),
                          IF HasPointRows THEN PointAt(Rows[i].key)
                          ELSE MedianAt(Rows[i].key)))
    /\ (/\ CalledTimestamped /\ ~HasPointRows /\ HasMedianRows
        /\ KeySet(observations) = KeySet(predictions)
        /\ out.interval_ranges = <<50>>) => out.res.status # "ValueError"

\* the part of C3 that the code keeps: without any point row the median
\* stands for the point, and the column is |obs - median|
C3_MedianFallback ==
    (CalledTimestamped /\ Returned /\ ~HasPointRows) =>
        \A i \in 1..Len(Rows) :
            Rows[i].point_absolute_error =
                RAbs(RSub(ObsAt(Rows[i].key), MedianAt(Rows[i].key)))

\* C9 on the 50% interval alone: equal values at 0.25 and 0.75 are scored
C9_EqualQuantilesScored ==
    (/\ CalledTimestamped /\ out.interval_ranges = <<50>>
     /\ KeySet(observations) = KeySet(predictions)
     /\ \A key \in KeySet(observations) :
         /\ QuantileRowsAt(key, 100) # {} /\ QuantileRowsAt(key, 50) # {}
         /\ QuantileRowsAt(key, 150) # {}
         /\ HasPointRows => PointRowsAt(key) # {}
         /\ ~StrictlyAbove(key, 50)) => Returned

\* C4: called with an empty interval_ranges list on tables with matching
\* key tuples and a median, all_timestamped_scores_from_df returns a table
\* with one row per key tuple that has the point_absolute_error and
\* median_absolute_error columns and no interval-score, WIS or coverage
\* column of any range.
C4_AbsoluteErrorOnly ==
    (/\ CalledTimestamped /\ out.interval_ranges = <<>>
     /\ KeySet(observations) = KeySet(predictions)
     /\ \A key \in KeySet(observations) : QuantileRowsAt(key, 100) # {}
     /\ \A key \in KeySet(observations) : HasPointRows => PointRowsAt(key) # {}) =>
        /\ Returned
        /\ {Rows[i].key : i \in 1..Len(Rows)} = KeySet(observations)
        /\ Len(Rows) = Cardinality(KeySet(observations))
        /\ \A i \in 1..Len(Rows) :
            /\ Rows[i].median_absolute_error =
                   RAbs(RSub(ObsAt(Rows[i].key), MedianAt(Rows[i].key)))
            /\ DOMAIN Rows[i].scores = {}

C9_NonMonotonicExactly ==
    (/\ CalledTimestamped /\ out.interval_ranges # <<>>
     /\ KeySet(observations) = KeySet(predictions)
     /\ \A key \in KeySet(observations) :
         /\ QuantileRowsAt(key, 100) # {}
         /\ HasPointRows => PointRowsAt(key) # {}
         /\ \A k \in 1..Len(out.interval_ranges) :
             /\ out.interval_ranges[k] \in 0..99
             /\ QuantileRowsAt(key, 100 - out.interval_ranges[k]) # {}
             /\ QuantileRowsAt(key, 100 + out.interval_ranges[k]) # {}) =>
        LET violated == \E key \in KeySet(observations) :
                            \E k \in 1..Len(out.interval_ranges) :
                                StrictlyAbove(key, out.interval_ranges[k])
        IN  /\ out.res.status = "RuntimeError" <=> violated
            /\ ~violated => Returned

\* the rows of the result whose key tuple has an observation and a median
HasMedianAt(key) == RowsAt(observations, key) # {} /\ QuantileRowsAt(key, 100) # {}

\* C15 as stated: for every key tuple, median_absolute_error is
\* |obs - median|; median_absolute_error_underprediction is nonzero only
\* where median < obs and median_absolute_error_overprediction is nonzero
\* only where median > obs; where median = obs both are zero.
C15_HalvesAsStated ==
    (CalledTimestamped /\ Returned) =>
        \A i \in 1..Len(Rows) : HasMedianAt(Rows[i].key) =>
            LET obs == ObsAt(Rows[i].key)
                median == MedianAt(Rows[i].key)
            IN  /\ Rows[i].median_absolute_error = RAbs(RSub(obs, median))
                /\ Rows[i].median_absolute_error_underprediction # RZero =>
                       RLt(median, obs)
                /\ Rows[i].median_absolute_error_overprediction # RZero =>
                       RLt(obs, median)
                /\ median = obs =>
                    /\ Rows[i].median_absolute_error_underprediction = RZero
                    /\ Rows[i].median_absolute_error_overprediction = RZero

\* C15 as amended: median_absolute_error is |obs - median|; the
\* underprediction half is nonzero only where median > obs and the
\* overprediction half is nonzero only where median < obs; where
\* median = obs both are zero.
C15_HalvesOfTheCode ==
    (CalledTimestamped /\ Returned) =>
        \A i \in 1..Len(Rows) : HasMedianAt(Rows[i].key) =>
            LET obs == ObsAt(Rows[i].key)
                median == MedianAt(Rows[i].key)
            IN  /\ Rows[i].median_absolute_error = RAbs(RSub(obs, median))
                /\ Rows[i].median_absolute_error_underprediction # RZero =>
                       RLt(obs, median)
                /\ Rows[i].median_absolute_error_overprediction # RZero =>
                       RLt(median, obs)
                /\ median = obs =>
                    /\ Rows[i].median_absolute_error_underprediction = RZero
                    /\ Rows[i].median_absolute_error_overprediction = RZero

\* rows were returned, one with a nonzero underprediction half and one
\* whose median is the observation
C15_Witness ==
    /\ CalledTimestamped /\ Returned
    /\ \E i \in 1..Len(Rows) :
        /\ HasMedianAt(Rows[i].key)
        /\ Rows[i].median_absolute_error_underprediction # RZero
    /\ \E i \in 1..Len(Rows) :
        /\ HasMedianAt(Rows[i].key)
        /\ MedianAt(Rows[i].key) = ObsAt(Rows[i].key)

\* C16: for every key tuple whose median is greater than the observation,
\* median_absolute_error_underprediction is |obs - median| and
\* median_absolute_error_overprediction is 0.
C16_MedianAboveObservation ==
    (CalledTimestamped /\ Returned) =>
        \A i \in 1..Len(Rows) :
            (HasMedianAt(Rows[i].key)
             /\ RLt(ObsAt(Rows[i].key), MedianAt(Rows[i].key))) =>
                /\ Rows[i].median_absolute_error_underprediction =
                       RAbs(RSub(ObsAt(Rows[i].key), MedianAt(Rows[i].key)))
                /\ Rows[i].median_absolute_error_overprediction = RZero

\* the numbers of the tests: four rows returned, each with the observation
\* 1 and the median 2 or more
C16_Witness ==
    /\ CalledTimestamped /\ Returned
    /\ Len(Rows) = 4
    /\ \A i \in 1..Len(Rows) :
        /\ ObsAt(Rows[i].key) = RInt(1)
        /\ RLt(ObsAt(Rows[i].key), MedianAt(Rows[i].key))
        /\ Rows[i].median_absolute_error_underprediction # RZero

\* the (d, df) returned by all_scores_from_df
SummaryD == out.res.value.d
ScoredDf == out.res.value.df
RequestedRanges == {out.interval_ranges[k] : k \in 1..Len(out.interval_ranges)}
CoverageRanges == {SummaryD.cov[k].interval_range : k \in 1..Len(SummaryD.cov)}

\* C11: in all_scores_from_df the interval_ranges list of the caller is
\* the one used throughout: the per-record table is scored over exactly
\* those ranges, and the summary has exactly one coverage entry for each
\* requested range and none for any other range.
C11_CallerRangesUsed ==
    (CalledAllScores /\ Returned) =>
        /\ \A i \in 1..Len(ScoredDf) : DOMAIN ScoredDf[i].scores = RequestedRanges
        /\ CoverageRanges = RequestedRanges
        /\ Len(SummaryD.cov) = Cardinality(RequestedRanges)

\* what the code does: the table and the coverages are those of the
\* default ranges, whatever list the caller gave
C11_DefaultRangesUsed ==
    (CalledAllScores /\ Returned) =>
        /\ \A i \in 1..Len(ScoredDf) :
            DOMAIN ScoredDf[i].scores =
                {DefaultIntervalRanges[k] : k \in 1..Len(DefaultIntervalRanges)}
        /\ [k \in 1..Len(SummaryD.cov) |-> SummaryD.cov[k].interval_range]
               = DefaultIntervalRanges

\* K + 0.5 for the K requested ranges
RangesPlusHalf == Rat(2 * Len(out.interval_ranges) + 1, 2)
\* sum of the {r}_{part} column / (((K + 0.5)/(0.5*(1 - r/100))) * wis_total)
FractionOf(r, sum) ==
    RDiv(sum,
         RMul(RDiv(RangesPlusHalf, RMul(RHalf, RSub(ROne, Rat(r, 100)))),
              SummaryD.wis_total))
DispersionFraction(r) ==
    FractionOf(r, RSum([i \in 1..Len(ScoredDf) |-> ScoredDf[i].scores[r].dispersion]))
UnderpredictionFraction(r) ==
    FractionOf(r, RSum([i \in 1..Len(ScoredDf) |->
                           ScoredDf[i].scores[r].underprediction]))
OverpredictionFraction(r) ==
    FractionOf(r, RSum([i \in 1..Len(ScoredDf) |->
                           ScoredDf[i].scores[r].overprediction]))
\* 0.5*sum(median_absolute_error_{part}) / ((K + 0.5)*wis_total)
ZeroUnderprediction ==
    RDiv(RMul(RHalf, RSum([i \in 1..Len(ScoredDf) |->
                              ScoredDf[i].median_absolute_error_underprediction])),
         RMul(RangesPlusHalf, SummaryD.wis_total))
ZeroOverprediction ==
    RDiv(RMul(RHalf, RSum([i \in 1..Len(ScoredDf) |->
                              ScoredDf[i].median_absolute_error_overprediction])),
         RMul(RangesPlusHalf, SummaryD.wis_total))

\* C12: in the summary returned by all_scores_from_df for K requested
\* ranges and wis_total > 0, each {r}_{part}_wis_fraction is the sum of the
\* {r}_{part} column / (((K + 0.5)/(0.5*(1 - r/100))) * wis_total), and
\* the aggregated {part}_wis_fraction is the sum of the fractions of the
\* requested ranges plus, for underprediction and overprediction only,
\* 0.5*sum(median_absolute_error_{part}) / ((K + 0.5)*wis_total).
C12_WisFractions ==
    (CalledAllScores /\ Returned /\ RLt(RZero, SummaryD.wis_total)) =>
        LET ranges == out.interval_ranges
            fr == SummaryD.range_wis_fraction
        IN  /\ SummaryD.wis_total = RSum([i \in 1..Len(ScoredDf) |-> ScoredDf[i].wis])
            /\ Len(fr) = Len(ranges)
            /\ \A k \in 1..Len(ranges) :
                /\ fr[k].interval_range = ranges[k]
                /\ fr[k].dispersion = DispersionFraction(ranges[k])
                /\ fr[k].underprediction = UnderpredictionFraction(ranges[k])
                /\ fr[k].overprediction = OverpredictionFraction(ranges[k])
            /\ SummaryD.dispersion_wis_fraction =
                   RSum([k \in 1..Len(ranges) |-> DispersionFraction(ranges[k])])
            /\ SummaryD.underprediction_wis_fraction =
                   RAdd(RSum([k \in 1..Len(ranges) |->
                                 UnderpredictionFraction(ranges[k])]),
                        ZeroUnderprediction)
            /\ SummaryD.overprediction_wis_fraction =
                   RAdd(RSum([k \in 1..Len(ranges) |->
                                 OverpredictionFraction(ranges[k])]),
                        ZeroOverprediction)

\* a summary was returned for the two ranges 50 and 80 over two rows, with
\* a positive wis_total and nonzero underprediction fractions
C12_Witness ==
    /\ CalledAllScores /\ Returned
    /\ out.interval_ranges = <<50, 80>>
    /\ Len(ScoredDf) = 2
    /\ RLt(RZero, SummaryD.wis_total)
    /\ RLt(RZero, SummaryD.range_wis_fraction[1].underprediction)
    /\ RLt(RZero, SummaryD.underprediction_wis_fraction)
    /\ RLt(RZero, SummaryD.dispersion_wis_fraction)

\* every key tuple of the observations has its median and the two
\* quantiles of every default range, and the key tuples match
HasFullFan ==
    /\ KeySet(observations) = KeySet(predictions)
    /\ \A key \in KeySet(observations) :
        /\ Cardinality(RowsAt(observations, key)) = 1
        /\ QuantileRowsAt(key, 100) # {}
        /\ \A k \in 1..Len(DefaultIntervalRanges) :
            /\ QuantileRowsAt(key, QLow(DefaultIntervalRanges[k])) # {}
            /\ QuantileRowsAt(key, QUpp(DefaultIntervalRanges[k])) # {}
\* every predicted value is the observation of its key tuple, so that
\* every absolute error and every interval score is zero
PerfectForecast ==
    /\ HasFullFan
    /\ \A i \in 1..Len(predictions.rows) :
        RInt(predictions.rows[i].value) =
            ObsAt(KeyOf(predictions.rows[i], ind_cols(predictions)))
AllFractionsNaN ==
    /\ IsNaN(SummaryD.zero_wis_fraction.underprediction)
    /\ IsNaN(SummaryD.zero_wis_fraction.overprediction)
    /\ \A k \in 1..Len(SummaryD.range_wis_fraction) :
        /\ IsNaN(SummaryD.range_wis_fraction[k].dispersion)
        /\ IsNaN(SummaryD.range_wis_fraction[k].underprediction)
        /\ IsNaN(SummaryD.range_wis_fraction[k].overprediction)
    /\ IsNaN(SummaryD.dispersion_wis_fraction)
    /\ IsNaN(SummaryD.underprediction_wis_fraction)
    /\ IsNaN(SummaryD.overprediction_wis_fraction)

\* C18: when wis_total is 0, all_scores_from_df does not fail: it returns
\* a summary in which every WIS fraction (of range 0, of each range and
\* aggregated) is NaN, and no division error reaches the caller.  The
\* inputs whose wis_total is 0 are the perfect forecasts.
C18_ZeroWisTotalGivesNaN ==
    /\ (CalledAllScores /\ ~out.mismatched_allowed /\ PerfectForecast) =>
        /\ Returned
        /\ SummaryD.wis_total = RZero
    /\ (CalledAllScores /\ Returned /\ SummaryD.wis_total = RZero) => AllFractionsNaN

\* what the code does instead: a call that returns has wis_total > 0
C18_ReturnedTotalPositive ==
    (CalledAllScores /\ Returned) => RLt(RZero, SummaryD.wis_total)

\* the combinations of values of the other independent columns
Strata ==
    {KeyOf(predictions.rows[i], predictions.other_ind_cols) :
        i \in 1..Len(predictions.rows)}
\* the summary records that all_scores_from_df returns: its one dict
SummaryRecords == <<SummaryD>>
\* the rows of the scored table that belong to a combination
StratumRows(s) ==
    SelectRows(ScoredDf, [i \in 1..Len(ScoredDf) |-> Tail(ScoredDf[i].key) = s])

\* C13: when the predictions declare other independent columns,
\* aggregation yields one summary record per distinct combination of
\* their values, each computed only from the rows of that combination;
\* with no such column the whole table is one stratum with one record.
C13_OneSummaryPerStratum ==
    (CalledAllScores /\ Returned) =>
        /\ Len(SummaryRecords) = Cardinality(Strata)
        /\ \A s \in Strata : \E k \in 1..Len(SummaryRecords) :
            /\ SummaryRecords[k].nb_t_match = Len(StratumRows(s))
            /\ SummaryRecords[k].wis_total =
                   RSum([i \in 1..Len(StratumRows(s)) |-> StratumRows(s)[i].wis])

\* what the code does: one record over the rows of every combination
C13_OneSummaryOverAllRows ==
    (CalledAllScores /\ Returned) =>
        /\ SummaryD.nb_t_match = Len(ScoredDf)
        /\ SummaryD.wis_total = RSum([i \in 1..Len(ScoredDf) |-> ScoredDf[i].wis])

\* the four values of a range that a row was given
PartsAt(key, r) ==
    [interval_score |-> IntervalScoreAt(key, r),
     dispersion |-> RSub(PredAt(key, 100 + r), PredAt(key, 100 - r)),
     underprediction |->
         RMul(PenaltyFactor(r), RMax0(RSub(PredAt(key, 100 - r), ObsAt(key)))),
     overprediction |->
         RMul(PenaltyFactor(r), RMax0(RSub(ObsAt(key), PredAt(key, 100 + r))))]
\* the quantiles a key tuple has rows for
QuantilesAt(key) == {predictions.rows[i].quantile : i \in RowsAt(predictions, key)}
\* two key tuples with the same numbers
SameNumbers(a, b) ==
    /\ ObsAt(a) = ObsAt(b)
    /\ QuantilesAt(a) = QuantilesAt(b)
    /\ \A q \in QuantilesAt(a) \ {QuantileNaN} : PredAt(a, q) = PredAt(b, q)
\* a row without its key tuple
ScoresOf(row) ==
    [scores |-> row.scores, wis |-> row.wis,
     median_absolute_error |-> row.median_absolute_error]

\* every value of every returned row comes from the observation and the
\* predictions of the key tuple of the row
RowsFromOwnKeyTuple ==
    /\ Len(Rows) = Cardinality(KeySet(observations))
    /\ {Rows[i].key : i \in 1..Len(Rows)} = KeySet(observations)
    /\ \A i \in 1..Len(Rows) :
        /\ QuantileRowsAt(Rows[i].key, 100) # {}
        /\ Rows[i].median_absolute_error =
               RAbs(RSub(ObsAt(Rows[i].key), MedianAt(Rows[i].key)))
        /\ DOMAIN Rows[i].scores = RequestedRanges
        /\ \A r \in RequestedRanges :
            /\ QuantileRowsAt(Rows[i].key, 100 - r) # {}
            /\ QuantileRowsAt(Rows[i].key, 100 + r) # {}
            /\ Rows[i].scores[r] = PartsAt(Rows[i].key, r)
        /\ Rows[i].wis =
               RDiv(WeightedSum(Rows[i].key, out.interval_ranges,
                                Len(out.interval_ranges)),
                    Rat(2 * Len(out.interval_ranges) + 1, 2))
    /\ \A i, j \in 1..Len(Rows) :
        SameNumbers(Rows[i].key, Rows[j].key) => ScoresOf(Rows[i]) = ScoresOf(Rows[j])

\* C14: for every pair of tables that passes the check of the key tuples,
\* all_timestamped_scores_from_df emits exactly one row per key tuple, and
\* every value of a row (the parts of the interval scores, wis,
\* median_absolute_error) is computed from the observation and the
\* predictions of that key tuple only; locations with the same numbers
\* get the same scores.  (Stated of the calls that return a table.)
C14_OneRowPerKeyTuple ==
    (CalledTimestamped /\ Returned /\ KeySet(observations) = KeySet(predictions)) =>
        RowsFromOwnKeyTuple

\* what holds of the code: the same when every key tuple has its median
\* row (the rows of the requested quantiles are then checked by the code)
C14_CompletePredictions ==
    (/\ CalledTimestamped /\ Returned /\ KeySet(observations) = KeySet(predictions)
     /\ \A key \in KeySet(predictions) : QuantileRowsAt(key, 100) # {}) =>
        RowsFromOwnKeyTuple

\* C10: with mismatched_allowed, all_scores_from_df scores filtered tables
\* in which, for every key column (time and each other independent
\* column), every value on one side is on the other side too; the filtered
\* tables hold only key tuples of both inputs, and their sets of key
\* tuples are equal.
C10_IntersectionOnEveryColumn ==
    (CalledAllScores /\ out.mismatched_allowed) =>
        /\ \A k \in 1..Len(ind_cols(observations)) :
            ColumnValues(out.res.obs, ind_cols(observations)[k])
                = ColumnValues(out.res.pred, ind_cols(observations)[k])
        /\ KeySet(out.res.obs) \subseteq KeySet(observations) \cap KeySet(predictions)
        /\ KeySet(out.res.pred) \subseteq KeySet(observations) \cap KeySet(predictions)
        /\ KeySet(out.res.obs) = KeySet(out.res.pred)

\* what the loop of all_scores_from_df does keep: the filter on the last
\* independent column
C10_LastColumnOnly ==
    (CalledAllScores /\ out.mismatched_allowed) =>
        LET col == ind_cols(observations)[Len(ind_cols(observations))]
        IN  /\ ColumnValues(out.res.obs, col) = ColumnValues(out.res.pred, col)
            /\ KeySet(out.res.obs) =
                   {key \in KeySet(observations) :
                       key[Len(key)] \in ColumnValues(predictions, col)}

\* the sum of the three aggregated fractions of the summary
FractionsSum ==
    RAdd(RAdd(SummaryD.dispersion_wis_fraction, SummaryD.underprediction_wis_fraction),
         SummaryD.overprediction_wis_fraction)

FractionsNonNegative ==
    /\ RLe(RZero, SummaryD.dispersion_wis_fraction)
    /\ RLe(RZero, SummaryD.underprediction_wis_fraction)
    /\ RLe(RZero, SummaryD.overprediction_wis_fraction)

\* C22: whenever all_scores_from_df returns with wis_total > 0, for any
\* interval_ranges list of the caller, dispersion_wis_fraction +
\* underprediction_wis_fraction + overprediction_wis_fraction = 1 and each
\* of the three is >= 0
C22_FractionsPartitionTotal ==
    (CalledAllScores /\ Returned /\ RLt(RZero, SummaryD.wis_total)) =>
        /\ FractionsSum = ROne
        /\ FractionsNonNegative

\* what the code does: the fractions are never negative, and they add up
\* to 1 when the caller's list is the default list, the one wis is
\* computed with
C22_PartitionForDefaultList ==
    (CalledAllScores /\ Returned /\ RLt(RZero, SummaryD.wis_total)) =>
        /\ FractionsNonNegative
        /\ out.interval_ranges = DefaultIntervalRanges => FractionsSum = ROne

\* a summary with a positive wis_total was returned for the default list
C22_DefaultListWitness ==
    /\ CalledAllScores /\ Returned
    /\ out.interval_ranges = DefaultIntervalRanges
    /\ RLt(RZero, SummaryD.wis_total)
    /\ RLt(RZero, SummaryD.underprediction_wis_fraction)

\* a summary with a positive wis_total was returned for the list [50, 80]
\* and its fractions do not add up to 1
C22_ShortListWitness ==
    /\ CalledAllScores /\ Returned
    /\ out.interval_ranges = <<50, 80>>
    /\ RLt(RZero, SummaryD.wis_total)
    /\ FractionsSum # ROne

(***************************************************************************)
(* Properties of filter, checked under SpecFilter.                         *)
(***************************************************************************)
CalledFilter == out.fn = "filter"
Receiver == IF out.self = "observations" THEN observations ELSE predictions
MatchesEveryRow == \A i \in 1..Len(out.bool_df) : out.bool_df[i]
SeveralRowsPerKeyTuple ==
    \E i, j \in 1..Len(Receiver.rows) :
        i # j /\ KeyOf(Receiver.rows[i], ind_cols(Receiver))
                   = KeyOf(Receiver.rows[j], ind_cols(Receiver))

\* C20: filtering an Observation or Prediction record set by a predicate
\* that matches every row returns a record set equal to the original, the
\* same rows in the same order, and leaves the original record set unchanged
C20_FilterEverythingIsIdentity ==
    [][(CalledFilter /\ MatchesEveryRow)'
           => /\ out'.res = Receiver'
              /\ observations' = observations
              /\ predictions' = predictions]_vars

\* a Prediction set with several rows per key tuple was filtered by a mask
\* that matches every row
C20_Witness ==
    /\ CalledFilter
    /\ MatchesEveryRow
    /\ out.self = "predictions"
    /\ SeveralRowsPerKeyTuple

SortedByKey(tbl) ==
    \A i \in 1..(Len(tbl.rows) - 1) :
        ~TupleLess(KeyOf(tbl.rows[i + 1], ind_cols(tbl)),
                   KeyOf(tbl.rows[i], ind_cols(tbl)))

RowBag(tbl) ==
    [r \in {tbl.rows[i] : i \in 1..Len(tbl.rows)} |->
        Cardinality({i \in 1..Len(tbl.rows) : tbl.rows[i] = r})]

\* the sort keeps the order of the rows with equal keys when there are
\* several independent columns or no more than SmallQuicksort + 1 rows
TiesKeptInOrder(tbl) ==
    Len(ind_cols(tbl)) > 1 \/ Len(tbl.rows) <= SmallQuicksort + 1

\* C20, what the code does: the originals are unchanged and the new record
\* set has the same rows, sorted by key tuple; the order is that of the
\* original when the sort keeps ties in order or the key tuples are unique
C20_SameRowsSortedByKey ==
    [][(CalledFilter /\ MatchesEveryRow)'
           => /\ RowBag(out'.res) = RowBag(Receiver')
              /\ out'.res.other_ind_cols = Receiver'.other_ind_cols
              /\ SortedByKey(out'.res)
              /\ (TiesKeptInOrder(Receiver') \/ ~SeveralRowsPerKeyTuple')
                    => out'.res = Receiver'
              /\ observations' = observations
              /\ predictions' = predictions]_vars

\* the new record set is in another order than the original
C20_ReorderedWitness ==
    /\ C20_Witness
    /\ out.res # Receiver

(***************************************************************************)
(* Properties of extreme_ensemble, checked under SpecEnsemble.             *)
(***************************************************************************)
CalledExtremeEnsemble == out.fn = "extreme_ensemble"
Ensemble == out.res.value
EnsembleCols == <<t_col>> \o predictions_list[1].other_ind_cols

\* the (key tuple, type, quantile) group of a row
GroupOf(row) == <<KeyOf(row, EnsembleCols), row.type, row.quantile>>

\* the rows of the inputs, as (table, row) positions
InputPositions ==
    UNION {{<<m, i>> : i \in 1..Len(predictions_list[m].rows)} :
              m \in 1..Len(predictions_list)}
InputRow(pos) == predictions_list[pos[1]].rows[pos[2]]
InputGroups == {GroupOf(InputRow(pos)) : pos \in InputPositions}
PositionsOf(g) == {pos \in InputPositions : GroupOf(InputRow(pos)) = g}

MinimumOf(P) ==
    LET pos == CHOOSE a \in P : \A b \in P : InputRow(a).value <= InputRow(b).value
    IN  RInt(InputRow(pos).value)
MaximumOf(P) ==
    LET pos == CHOOSE a \in P : \A b \in P : InputRow(a).value >= InputRow(b).value
    IN  RInt(InputRow(pos).value)
\* the k-th smallest value at the positions P
KthSmallest(P, k) ==
    LET pos == CHOOSE a \in P :
                   /\ Cardinality({b \in P : InputRow(b).value < InputRow(a).value}) < k
                   /\ Cardinality({b \in P : InputRow(b).value <= InputRow(a).value}) >= k
    IN  InputRow(pos).value
MedianOf(P) ==
    IF Cardinality(P) % 2 = 1 THEN RInt(KthSmallest(P, (Cardinality(P) + 1) \div 2))
    ELSE Rat(KthSmallest(P, Cardinality(P) \div 2)
                 + KthSmallest(P, Cardinality(P) \div 2 + 1), 2)

ExtremeOf(g) ==
    IF g[2] = "point" THEN MedianOf(PositionsOf(g))
    ELSE IF g[3] < 100 THEN MinimumOf(PositionsOf(g))
    ELSE IF g[3] > 100 THEN MaximumOf(PositionsOf(g))
    ELSE MedianOf(PositionsOf(g))

EnsembleRowsOf(g) == {i \in 1..Len(Ensemble.rows) : GroupOf(Ensemble.rows[i]) = g}

\* C21: extreme_ensemble returns a Prediction set with exactly one row for
\* each (key tuple, type, quantile) group of the inputs, so at most one
\* point row and one row per quantile for a key tuple, whose value is the
\* minimum of the group's values when quantile < 0.5, the maximum when
\* quantile > 0.5, the median when quantile is 0.5, and the median for
\* point rows
C21_ExtremeEnsemble ==
    (CalledExtremeEnsemble /\ Returned) =>
        /\ \A g \in InputGroups : Cardinality(EnsembleRowsOf(g)) = 1
        /\ \A i \in 1..Len(Ensemble.rows) :
            /\ GroupOf(Ensemble.rows[i]) \in InputGroups
            /\ Ensemble.rows[i].value = ExtremeOf(GroupOf(Ensemble.rows[i]))
        /\ \A i, j \in 1..Len(Ensemble.rows) :
            (/\ i # j
             /\ KeyOf(Ensemble.rows[i], EnsembleCols) = KeyOf(Ensemble.rows[j], EnsembleCols))
                => /\ ~(Ensemble.rows[i].type = "point" /\ Ensemble.rows[j].type = "point")
                   /\ Ensemble.rows[i].quantile # Ensemble.rows[j].quantile
                        \/ Ensemble.rows[i].type # Ensemble.rows[j].type

\* an ensemble of three members was returned in which, for one key tuple,
\* a quantile below 0.5 has a minimum under its median, a quantile above 0.5
\* a maximum over its median, and the point row the median of three values
C21_Witness ==
    /\ CalledExtremeEnsemble /\ Returned
    /\ Len(predictions_list) = 3
    /\ \E i, j, k \in 1..Len(Ensemble.rows) :
        /\ KeyOf(Ensemble.rows[i], EnsembleCols) = KeyOf(Ensemble.rows[j], EnsembleCols)
        /\ KeyOf(Ensemble.rows[i], EnsembleCols) = KeyOf(Ensemble.rows[k], EnsembleCols)
        /\ Ensemble.rows[i].type = "quantile" /\ Ensemble.rows[i].quantile = 50
        /\ Cardinality(PositionsOf(GroupOf(Ensemble.rows[i]))) = 3
        /\ RLt(Ensemble.rows[i].value, MedianOf(PositionsOf(GroupOf(Ensemble.rows[i]))))
        /\ Ensemble.rows[j].type = "quantile" /\ Ensemble.rows[j].quantile = 150
        /\ RLt(MedianOf(PositionsOf(GroupOf(Ensemble.rows[j]))), Ensemble.rows[j].value)
        /\ Ensemble.rows[k].type = "point"
        /\ Cardinality(PositionsOf(GroupOf(Ensemble.rows[k]))) = 3
        /\ RLt(MinimumOf(PositionsOf(GroupOf(Ensemble.rows[k]))), Ensemble.rows[k].value)
        /\ RLt(Ensemble.rows[k].value, MaximumOf(PositionsOf(GroupOf(Ensemble.rows[k]))))

====
